---- MODULE Spec2Model ----
(***************************************************************************)
(* A model of the CRA protocol tracing core (tracer_core.py): the graph    *)
(* the core keeps in the store (Address and Entity nodes, SENT and         *)
(* OWNED_BY relationships), the two writers load_transaction and           *)
(* attribute_entity, and the two readers trace_and_format_graph and        *)
(* analyze_mixer_flow.                                                     *)
(*                                                                         *)
(* The store is modelled by the meaning of the Cypher clauses the source   *)
(* writes: a query runs as one transaction, MERGE matches the whole        *)
(* pattern or creates it, ON CREATE / ON MATCH act on the branch taken.    *)
(* Nodes and relationships are kept in bags (the store has no order and    *)
(* nothing but MERGE keeps two records from being equal).                  *)
(* Timestamps are whole seconds; amounts are whole USD.                    *)
(***************************************************************************)
EXTENDS Integers, Sequences, FiniteSets, Bags, TLC

VARIABLES
    addresses,   \* bag of Address nodes
    entities,    \* bag of Entity nodes
    owned_by,    \* bag of OWNED_BY relationships
    sent,        \* bag of SENT relationships
    last,        \* the last call: its name, its arguments and its outcome
    callers,     \* per caller, its open write transaction on the store
    observed     \* what a reader's query last saw of the committed graph

vars == <<addresses, entities, owned_by, sent, last, callers, observed>>
graph == <<addresses, entities, owned_by, sent>>

(***************************************************************************)
(* Values of the store and the call inputs.                                *)
(***************************************************************************)
NULL == -1            \* a property that was never set (Cypher null)
RISK_SCORE == 99      \* a.risk_score = 0.99, in hundredths

\* The keys load_transaction reads from tx_data.
Fields == {"source_address", "destination_address", "transaction_hash",
           "value_usd", "blockchain_type", "block_timestamp"}

\* A normalized transaction dict; absent names the key it lacks (or "none").
TxData(src, dst, tx, amt, ts, absent) ==
    [source_address |-> src, destination_address |-> dst,
     transaction_hash |-> tx, value_usd |-> amt, blockchain_type |-> "ETH",
     block_timestamp |-> ts, absent |-> absent]

(***************************************************************************)
(* Bag helpers.                                                            *)
(***************************************************************************)
AddOne(B, e) == B (+) SetToBag({e})

\* The number of records of bag B that satisfy P.
CountIn(B, P(_)) ==
    LET S == { e \in BagToSet(B) : P(e) }
        RECURSIVE Sum(_)
        Sum(T) == IF T = {} THEN 0
                  ELSE LET e == CHOOSE x \in T : TRUE
                       IN CopiesIn(e, B) + Sum(T \ {e})
    IN Sum(S)

(***************************************************************************)
(* The store's MERGE clauses.                                              *)
(***************************************************************************)
NewAddress(h, first) ==
    [hash |-> h, first_seen |-> first, last_seen |-> NULL,
     risk_score |-> NULL, is_attributed |-> FALSE]

HasAddress(as, h) == \E a \in BagToSet(as) : a.hash = h

\* MERGE (x:Address {hash: h})
\*   ON CREATE SET x.first_seen = ts  ON MATCH SET x.last_seen = ts
MergeAddressSeen(as, h, ts) ==
    IF HasAddress(as, h)
    THEN LET touch(a) == IF a.hash = h THEN [a EXCEPT !.last_seen = ts] ELSE a
         IN BagOfAll(touch, as)
    ELSE AddOne(as, NewAddress(h, ts))

\* MERGE (a:Address {hash: h}), with no ON CREATE / ON MATCH
MergeAddress(as, h) ==
    IF HasAddress(as, h) THEN as ELSE AddOne(as, NewAddress(h, NULL))

HasSent(ss, tx, src, dst) ==
    \E e \in BagToSet(ss) : e.tx_hash = tx /\ e.from = src /\ e.to = dst

\* MERGE (source)-[s:SENT {tx_hash: tx}]->(dest) ON CREATE SET amount, timestamp, blockchain
MergeSent(ss, rec) ==
    IF HasSent(ss, rec.transaction_hash, rec.source_address, rec.destination_address)
    THEN ss
    ELSE AddOne(ss, [tx_hash |-> rec.transaction_hash,
                     from |-> rec.source_address,
                     to |-> rec.destination_address,
                     amount_usd |-> rec.value_usd,
                     timestamp |-> rec.block_timestamp,
                     blockchain |-> rec.blockchain_type])

HasEntity(es, n) == \E e \in BagToSet(es) : e.name = n

\* (mutant) CREATE in place of MERGE: an Entity node per call.
MergeEntity_Create(es, n, t) ==
    AddOne(es, [name |-> n, type |-> t, is_attributed |-> TRUE])

\* MERGE (e:Entity {name: n}) ON CREATE SET e.type = t, e.is_attributed = TRUE
MergeEntity(es, n, t) ==
    IF HasEntity(es, n) THEN es
    ELSE AddOne(es, [name |-> n, type |-> t, is_attributed |-> TRUE])

\* MERGE (a)-[r:OWNED_BY]->(e)
MergeOwnedBy(os, h, n) ==
    IF \E o \in BagToSet(os) : o.address = h /\ o.entity = n THEN os
    ELSE AddOne(os, [address |-> h, entity |-> n])

\* SET a.risk_score = 0.99, a.is_attributed = TRUE
SetAttributed(as, h) ==
    LET mark(a) == IF a.hash = h
                   THEN [a EXCEPT !.risk_score = RISK_SCORE, !.is_attributed = TRUE]
                   ELSE a
    IN BagOfAll(mark, as)

(***************************************************************************)
(* load_transaction(tx_data).  fail is the store's choice: the write       *)
(* transaction raises (store unreachable) and nothing is applied.          *)
(***************************************************************************)
LoadOutcome(rec, fail) ==
    IF rec.absent = "block_timestamp" THEN "KeyError"      \* line 50, outside the try
    ELSE IF rec.absent # "none" \/ fail THEN "False"       \* the query raises: except
    ELSE "True"

LoadTransaction(rec, fail, cap) ==
    LET out == LoadOutcome(rec, fail)
        as1 == MergeAddressSeen(addresses, rec.source_address, rec.block_timestamp)
        as2 == MergeAddressSeen(as1, rec.destination_address, rec.block_timestamp)
        ss2 == MergeSent(sent, rec)
    IN /\ last' = [op |-> "load_transaction", rec |-> rec, fail |-> fail, ret |-> out]
       /\ IF out = "True"
          THEN /\ BagCardinality(ss2) <= cap
               /\ addresses' = as2
               /\ sent' = ss2
               /\ UNCHANGED <<entities, owned_by>>
          ELSE UNCHANGED graph

(***************************************************************************)
(* attribute_entity(address_hash, entity_name, entity_type).  A store      *)
(* failure is not caught: the call raises and nothing is applied.          *)
(***************************************************************************)
AttributeEntity(h, n, t, fail) ==
    /\ last' = [op |-> "attribute_entity", address_hash |-> h, entity_name |-> n,
                entity_type |-> t, ret |-> IF fail THEN "raise" ELSE "None"]
    /\ IF fail THEN UNCHANGED graph
       ELSE /\ addresses' = SetAttributed(MergeAddress(addresses, h), h)
            /\ entities' = MergeEntity(entities, n, t)
            /\ owned_by' = MergeOwnedBy(owned_by, h, n)
            /\ UNCHANGED sent

(***************************************************************************)
(* trace_and_format_graph(start_address, max_hops).  The query is read by  *)
(* what its clauses say: the paths of 1..max_hops SENT relationships from  *)
(* the start node (a relationship at most once per path), kept when every  *)
(* relationship has amount_usd > 500; the distinct nodes and relationships *)
(* of the kept paths; each node projected once per owning Entity (OPTIONAL *)
(* MATCH) and the projections made DISTINCT as whole maps.  The two lists  *)
(* are modelled as sets: collect(DISTINCT ..) has no duplicates and no     *)
(* stated order.  A store failure is not caught: the call raises.          *)
(***************************************************************************)
PEEL_MIN_USD == 500       \* WHERE ALL(rel IN s WHERE rel.amount_usd > 500)
PEEL_FLAG_USD == 900      \* is_peel_chain: (rel.amount_usd > 900)

Range(p) == { p[i] : i \in 1..Len(p) }

\* (start)-[s:SENT*n..n]->(end): no relationship twice on a path.
RECURSIVE PathsOfLen(_, _, _)
PathsOfLen(E, start, n) ==
    IF n = 1 THEN { <<e>> : e \in { x \in E : x.from = start } }
    ELSE UNION { { Append(p, e) : e \in { x \in E : x.from = p[Len(p)].to
                                                    /\ x \notin Range(p) } }
                 : p \in PathsOfLen(E, start, n - 1) }

MatchPaths(E, start, max_hops) ==
    UNION { PathsOfLen(E, start, n) : n \in 1..max_hops }

\* (mutant) the dominant-flow filter with >= in place of >.
DominantFlow_Geq(p) == \A i \in 1..Len(p) : p[i].amount_usd >= PEEL_MIN_USD

\* ALL(rel IN s WHERE rel.amount_usd > 500)
DominantFlow(p) == \A i \in 1..Len(p) : p[i].amount_usd > PEEL_MIN_USD

QualifyingPaths(as, E, start, max_hops) ==
    IF HasAddress(as, start)
    THEN { p \in MatchPaths(E, start, max_hops) : DominantFlow(p) }
    ELSE {}

\* nodes(path) and relationships(path) over the kept paths, DISTINCT.
PathNodes(as, P, start) ==
    { a \in BagToSet(as) :
        \E p \in P : a.hash = start \/ \E i \in 1..Len(p) : a.hash = p[i].to }
PathRels(P) == UNION { Range(p) : p \in P }

\* OPTIONAL MATCH (node)-[:OWNED_BY]->(e:Entity): the owners' types, or null.
OwnerTypes(es, os, h) ==
    LET ts == { e.type : e \in { x \in BagToSet(es) :
                  \E o \in BagToSet(os) : o.address = h /\ o.entity = x.name } }
    IN IF ts = {} THEN {"null"} ELSE ts

Coalesce(v, d) == IF v = NULL THEN d ELSE v

ProjectNodes(es, os, N) ==
    { [id |-> a.hash, label |-> a.hash, group |-> "Address",
       risk_score |-> Coalesce(a.risk_score, 0), entity_type |-> t,
       first_seen |-> a.first_seen]
      : <<a, t>> \in UNION { { <<x, y>> : y \in OwnerTypes(es, os, x.hash) } : x \in N } }

IsPeelChain(amount) == amount > PEEL_FLAG_USD

ProjectEdges(R) ==
    { [id |-> r.tx_hash, from |-> r.from, to |-> r.to, label |-> r.amount_usd,
       amount_usd |-> r.amount_usd, is_peel_chain |-> IsPeelChain(r.amount_usd)]
      : r \in R }

\* sum(edge['amount_usd'] for edge in result['edges'])
RECURSIVE SumAmounts(_)
SumAmounts(S) ==
    IF S = {} THEN 0
    ELSE LET e == CHOOSE x \in S : TRUE
         IN e.amount_usd + SumAmounts(S \ {e})

TraceResult(as, es, os, ss, start, max_hops) ==
    LET P == QualifyingPaths(as, BagToSet(ss), start, max_hops)
        nodes == ProjectNodes(es, os, PathNodes(as, P, start))
        edges == ProjectEdges(PathRels(P))
    IN IF nodes = {}
       THEN [nodes |-> {}, edges |-> {}, risk_level |-> "LOW",
             conclusion |-> "No Peel Chain path found.", total_value_usd |-> 0]
       ELSE [nodes |-> nodes, edges |-> edges, risk_level |-> "HIGH",
             conclusion |-> "Potential Peel Chain pattern detected.",
             total_value_usd |-> SumAmounts(edges)]

TraceAndFormatGraph(start, max_hops, fail) ==
    /\ last' = [op |-> "trace_and_format_graph", start_address |-> start,
                max_hops |-> max_hops,
                ret |-> IF fail THEN "raise" ELSE "result",
                result |-> IF fail THEN [nodes |-> {}, edges |-> {}]
                           ELSE TraceResult(addresses, entities, owned_by, sent,
                                            start, max_hops)]
    /\ UNCHANGED graph

(***************************************************************************)
(* analyze_mixer_flow(start_address, mixer_name).                          *)
(***************************************************************************)
TOLERANCE_PCT == 5            \* <= 0.05 * dep.amount_usd
WINDOW_MINUTES == 30          \* .minutes <= 30
RESULT_LIMIT == 10            \* LIMIT 10
SECONDS_PER_MINUTE == 60
SECONDS_PER_DAY == 86400

Abs(x) == IF x < 0 THEN -x ELSE x

\* Integer division that rounds toward zero.
Quot(x, d) == IF x >= 0 THEN x \div d ELSE -((-x) \div d)

\* duration.between(from, to).minutes.  duration.between gives a duration in
\* months, days and seconds, all of the sign of the difference (the months
\* are whole days too); .minutes is the whole minutes of its seconds
\* component alone, so the days do not count.
DurationMinutes(from, to) ==
    LET diff == to - from
        secs == diff - Quot(diff, SECONDS_PER_DAY) * SECONDS_PER_DAY
    IN Quot(secs, SECONDS_PER_MINUTE)

\* (x)-[:OWNED_BY]->(:Entity {name: n})
OwnedByEntity(es, os, h, n) ==
    /\ \E o \in BagToSet(os) : o.address = h /\ o.entity = n
    /\ HasEntity(es, n)

\* (mutant) the tolerance taken on the withdrawal instead of the deposit.
AmountCorrelated_OfWithdrawal(dep, wdr) ==
    100 * Abs(dep.amount_usd - wdr.amount_usd) <= TOLERANCE_PCT * wdr.amount_usd

\* abs(dep.amount_usd - wdr.amount_usd) <= 0.05 * dep.amount_usd
AmountCorrelated(dep, wdr) ==
    100 * Abs(dep.amount_usd - wdr.amount_usd) <= TOLERANCE_PCT * dep.amount_usd

TimeCorrelated(dep, wdr) ==
    /\ DurationMinutes(dep.timestamp, wdr.timestamp) >= 0
    /\ DurationMinutes(dep.timestamp, wdr.timestamp) <= WINDOW_MINUTES

\* The rows of the two MATCH clauses and their WHERE, before ORDER BY / LIMIT.
MatchedRows(es, os, ss, start, mixer) ==
    { r \in [dep : BagToSet(ss), wdr : BagToSet(ss)] :
        /\ r.dep.from = start
        /\ OwnedByEntity(es, os, r.dep.to, mixer)
        /\ OwnedByEntity(es, os, r.wdr.from, mixer)
        /\ AmountCorrelated(r.dep, r.wdr)
        /\ TimeCorrelated(r.dep, r.wdr) }

\* ORDER BY DepositTime LIMIT 10: the sets of rows the store may keep.  Rows
\* of equal DepositTime have no stated order, so which of them fall under
\* the limit is the store's choice.
LimitedRows(R) ==
    IF Cardinality(R) <= RESULT_LIMIT THEN {R}
    ELSE LET times == { r.dep.timestamp : r \in R }
             upTo(t) == { r \in R : r.dep.timestamp <= t }
             cut == CHOOSE t \in times :
                       /\ Cardinality(upTo(t)) >= RESULT_LIMIT
                       /\ \A u \in times : u < t => Cardinality(upTo(u)) < RESULT_LIMIT
             sure == { r \in R : r.dep.timestamp < cut }
             tied == { r \in R : r.dep.timestamp = cut }
         IN { sure \cup T : T \in { X \in SUBSET tied :
                                       Cardinality(X) = RESULT_LIMIT - Cardinality(sure) } }

\* The kept rows as the list the query returns, by ascending DepositTime.
RECURSIVE OrderByDepositTime(_)
OrderByDepositTime(R) ==
    IF R = {} THEN << >>
    ELSE LET r == CHOOSE x \in R : \A y \in R : x.dep.timestamp <= y.dep.timestamp
         IN <<r>> \o OrderByDepositTime(R \ {r})

\* RETURN source.hash AS DepositSource, ..., wdr.timestamp AS WithdrawalTime
QueryRecord(r) ==
    [DepositSource |-> r.dep.from, DepositAmount |-> r.dep.amount_usd,
     WithdrawalAmount |-> r.wdr.amount_usd, WithdrawalTarget |-> r.wdr.to,
     DepositTime |-> r.dep.timestamp, WithdrawalTime |-> r.wdr.timestamp]

\* round(time_diff.total_seconds() / 60, 2), in hundredths of a minute.
TimeDifferenceMinutes(record) ==
    (10 * (record.WithdrawalTime - record.DepositTime) + 3) \div 6

Correlation(record) ==
    [deposit_source |-> record.DepositSource,
     deposit_amount_usd |-> record.DepositAmount,
     withdrawal_amount_usd |-> record.WithdrawalAmount,
     withdrawal_target |-> record.WithdrawalTarget,
     time_difference_minutes |-> TimeDifferenceMinutes(record)]

MixerResult(results, mixer) ==
    IF results = << >>
    THEN [status |-> "No Correlation Found", correlations |-> << >>]
    ELSE [status |-> "CORRELATION DETECTED", mixer |-> mixer, count |-> Len(results),
          correlations |-> [i \in 1..Len(results) |-> Correlation(results[i])]]

\* fail: the session raises; the except branch returns status ERROR.
AnalyzeMixerFlow(start, mixer, fail) ==
    /\ \E kept \in LimitedRows(MatchedRows(entities, owned_by, sent, start, mixer)) :
          LET rows == OrderByDepositTime(kept)
              results == [i \in 1..Len(rows) |-> QueryRecord(rows[i])]
          IN last' = [op |-> "analyze_mixer_flow", start_address |-> start,
                      mixer_name |-> mixer,
                      results |-> IF fail THEN << >> ELSE results,
                      result |-> IF fail THEN [status |-> "ERROR", correlations |-> << >>]
                                 ELSE MixerResult(results, mixer)]
    /\ UNCHANGED graph

(***************************************************************************)
(* Concurrent load_transaction.  Each call is one write transaction of the *)
(* store: its MERGE clauses run one after the other against the committed  *)
(* graph and the transaction's own writes (read committed), a matched node *)
(* that ON MATCH SET writes is locked until the commit, a node or edge the *)
(* transaction creates is invisible to the others until the commit, and    *)
(* the commit applies all of its writes at once.  No uniqueness constraint *)
(* is declared on Address.hash, so a MERGE that finds no committed node    *)
(* creates one without waiting for anybody.                                *)
(***************************************************************************)
MaxCallers == 2       \* callers with a write transaction of their own

Callers == 1..MaxCallers

Idle == [pc |-> "idle"]

NoNode == [hash |-> "none"]

\* Some other open transaction holds the write lock on the node of hash h.
Locked(c, h) ==
    \E d \in Callers \ {c} :
        /\ callers[d].pc # "idle"
        /\ h \in {callers[d].source.hash, callers[d].dest.hash}

\* The committed Address nodes of hash h.
NodesOf(h) == { a \in BagToSet(addresses) : a.hash = h }

\* tx_data_copy = tx_data.copy(); execute_write opens the transaction.
BeginWrite(c, rec) ==
    /\ callers[c].pc = "idle"
    /\ callers' = [callers EXCEPT ![c] =
                     [pc |-> "merge_source", rec |-> rec, source |-> NoNode,
                      dest |-> NoNode, created |-> {}, new_sent |-> FALSE]]
    /\ UNCHANGED <<graph, last, observed>>

\* MERGE (x:Address {hash: h}) in caller c's transaction: the committed node
\* is matched and locked, or a node of the transaction's own is created.
\* The step is followed while the committed graph has one node of hash h at
\* most.
MergeNodeIn(c, at, field, h, next) ==
    /\ callers[c].pc = at
    /\ Cardinality(NodesOf(h)) <= 1
    /\ \A a \in NodesOf(h) : CopiesIn(a, addresses) = 1
    /\ IF NodesOf(h) # {}
       THEN /\ ~Locked(c, h)
            /\ \E a \in NodesOf(h) :
                  callers' = [callers EXCEPT ![c].pc = next, ![c][field] = a]
       ELSE callers' = [callers EXCEPT ![c].pc = next,
                                       ![c].created = @ \cup {h}]
    /\ UNCHANGED <<graph, last, observed>>

MergeSource(c) ==
    /\ callers[c].pc = "merge_source"
    /\ MergeNodeIn(c, "merge_source", "source", callers[c].rec.source_address,
                   "merge_dest")

MergeDest(c) ==
    /\ callers[c].pc = "merge_dest"
    /\ MergeNodeIn(c, "merge_dest", "dest", callers[c].rec.destination_address,
                   "merge_sent")

\* MERGE (source)-[s:SENT {tx_hash}]->(dest) between the nodes the
\* transaction bound: an edge can match only between two committed nodes.
MergeSentIn(c) ==
    LET tx == callers[c]
    IN /\ tx.pc = "merge_sent"
       /\ callers' = [callers EXCEPT ![c].pc = "commit",
                        ![c].new_sent =
                           ~( /\ tx.created = {}
                              /\ HasSent(sent, tx.rec.transaction_hash,
                                         tx.rec.source_address,
                                         tx.rec.destination_address) )]
       /\ UNCHANGED <<graph, last, observed>>

\* The writes of one MERGE of an Address, as the commit applies them.
WriteNode(as, tx, node, h) ==
    IF h \in tx.created THEN AddOne(as, NewAddress(h, tx.rec.block_timestamp))
    ELSE AddOne(as (-) SetToBag({node}),
                [node EXCEPT !.last_seen = tx.rec.block_timestamp])

\* The transaction commits: its writes become visible together, the locks
\* are released and load_transaction returns True.
CommitWrite(c) ==
    LET tx == callers[c]
        as1 == WriteNode(addresses, tx, tx.source, tx.rec.source_address)
        as2 == WriteNode(as1, tx, tx.dest, tx.rec.destination_address)
    IN /\ tx.pc = "commit"
       /\ addresses' = as2
       /\ sent' = IF tx.new_sent
                  THEN AddOne(sent, [tx_hash |-> tx.rec.transaction_hash,
                                     from |-> tx.rec.source_address,
                                     to |-> tx.rec.destination_address,
                                     amount_usd |-> tx.rec.value_usd,
                                     timestamp |-> tx.rec.block_timestamp,
                                     blockchain |-> tx.rec.blockchain_type])
                  ELSE sent
       /\ last' = [op |-> "load_transaction", rec |-> tx.rec, fail |-> FALSE,
                   ret |-> "True"]
       /\ callers' = [callers EXCEPT ![c] = Idle]
       /\ UNCHANGED <<entities, owned_by, observed>>

\* The transaction raises: nothing of it is applied, the except branch
\* returns False.
AbortWrite(c) ==
    /\ callers[c].pc \notin {"idle"}
    /\ last' = [op |-> "load_transaction", rec |-> callers[c].rec, fail |-> TRUE,
                ret |-> "False"]
    /\ callers' = [callers EXCEPT ![c] = Idle]
    /\ UNCHANGED <<graph, observed>>

\* A reader's query over the committed graph: the Address nodes it finds
\* and the SENT edges between them.
ReadGraph ==
    /\ observed' = [nodes |-> { a.hash : a \in BagToSet(addresses) },
                    edges |-> { [tx_hash |-> e.tx_hash, from |-> e.from, to |-> e.to] :
                                  e \in BagToSet(sent) }]
    /\ UNCHANGED <<graph, last, callers>>

(***************************************************************************)
(* The empty store, and the calls over given input sets.                   *)
(***************************************************************************)
Init ==
    /\ addresses = EmptyBag
    /\ entities = EmptyBag
    /\ owned_by = EmptyBag
    /\ sent = EmptyBag
    /\ last = [op |-> "init"]
    /\ callers = [c \in Callers |-> Idle]
    /\ observed = [nodes |-> {}, edges |-> {}]

Load(recs, fails, cap) ==
    /\ \E rec \in recs, fail \in fails : LoadTransaction(rec, fail, cap)
    /\ UNCHANGED <<callers, observed>>

Attribute(hs, ns, ts, fails) ==
    /\ \E h \in hs, n \in ns, t \in ts, fail \in fails : AttributeEntity(h, n, t, fail)
    /\ UNCHANGED <<callers, observed>>

Analyze(starts, mixers, fails) ==
    /\ \E start \in starts, mixer \in mixers, fail \in fails :
          AnalyzeMixerFlow(start, mixer, fail)
    /\ UNCHANGED <<callers, observed>>

Trace(starts, hops, fails) ==
    /\ \E start \in starts, max_hops \in hops, fail \in fails :
          TraceAndFormatGraph(start, max_hops, fail)
    /\ UNCHANGED <<callers, observed>>

(***************************************************************************)
(* Spec: ingestion.  Transfers between two addresses under two transaction *)
(* hashes at times 1..MaxTime, records with a non-positive amount or a     *)
(* missing key, store failures, and attribution of either address.         *)
(***************************************************************************)
MaxSent == 2          \* SENT relationships in the store
MaxTime == 2          \* block timestamps 1..MaxTime

Hashes == {"A", "B"}
TxHashes == {"T1", "T2"}
Times == 1..MaxTime

Records ==
    { TxData(src, dst, tx, 100, ts, "none") :
        src \in Hashes, dst \in Hashes, tx \in TxHashes, ts \in Times }
    \cup { TxData("A", "B", tx, 0, 1, "none") : tx \in TxHashes }
    \cup { TxData("A", "B", "T1", 100, 1, f) : f \in Fields }

Next ==
    \/ Load(Records, BOOLEAN, MaxSent)
    \/ Attribute(Hashes, {"N1"}, {"Mixer"}, {FALSE})

Spec == Init /\ [][Next]_vars

(***************************************************************************)
(* SpecAttr: attribution.  Addresses 1..MaxAttrHashes of the pool are      *)
(* attributed to entities under two names and two types, between           *)
(* transfers from "A" to "B".                                              *)
(***************************************************************************)
MaxAttrHashes == 2

HashPool == <<"A", "B", "C", "D">>
AttrHashes == { HashPool[i] : i \in 1..MaxAttrHashes }
EntityNames == {"N1", "N2"}
EntityTypes == {"Mixer", "VASP"}

NextAttr ==
    \/ Load({TxData("A", "B", "T1", 100, 1, "none")}, {FALSE}, 1)
    \/ Attribute(AttrHashes, EntityNames, EntityTypes, BOOLEAN)

SpecAttr == Init /\ [][NextAttr]_vars

(***************************************************************************)
(* SpecTrace: peel-chain tracing.  Transfers on four address pairs (a      *)
(* chain A -> B -> C, a shortcut A -> C and a way back B -> A), each with  *)
(* its own transaction hash, at the amounts around the two thresholds;     *)
(* "B" may be attributed to two entities of different types.               *)
(***************************************************************************)
MaxSentTrace == 2     \* SENT relationships in the store
MaxHops == 2          \* max_hops in 1..MaxHops

TracePairs == { <<"A", "B", "T1">>, <<"B", "C", "T2">>,
                <<"A", "C", "T3">>, <<"B", "A", "T4">> }
TraceAmounts == { PEEL_MIN_USD, PEEL_MIN_USD + 1, PEEL_FLAG_USD, PEEL_FLAG_USD + 1 }
TraceRecords ==
    { TxData(p[1], p[2], p[3], amt, 1, "none") : p \in TracePairs, amt \in TraceAmounts }

NextTrace ==
    \/ Load(TraceRecords, {FALSE}, MaxSentTrace)
    \/ Attribute({"B"}, {"N1"}, {"Mixer"}, {FALSE})
    \/ Attribute({"B"}, {"N2"}, {"VASP"}, {FALSE})
    \/ Trace({"A", "B", "C"}, 1..MaxHops, BOOLEAN)

SpecTrace == Init /\ [][NextTrace]_vars

(***************************************************************************)
(* SpecMixer: mixer correlation.  A deposit A -> M and another source's    *)
(* deposit B -> M, withdrawals M -> X under two transaction hashes, and a  *)
(* transfer X -> A out of an address that another entity owns; amounts at  *)
(* the 5% boundary, at 0:00 and 0:30.                                      *)
(***************************************************************************)
MaxSentMixer == 2     \* SENT relationships in the store

MixerTimes == {0, 30 * SECONDS_PER_MINUTE}

MixerRecords ==
    { TxData("A", "M", "T1", amt, ts, "none") : amt \in {1000, 950}, ts \in MixerTimes }
    \cup { TxData("M", "X", "T3", amt, ts, "none") :
             amt \in {1000, 950, 949}, ts \in MixerTimes }
    \cup { TxData("B", "M", "T2", 1000, 0, "none"),
           TxData("M", "X", "T4", 950, 0, "none"),
           TxData("X", "A", "T5", 1000, 0, "none") }

NextMixer ==
    \/ Load(MixerRecords, {FALSE}, MaxSentMixer)
    \/ Attribute({"M"}, {"Mix"}, {"Mixer"}, {FALSE})
    \/ Attribute({"X"}, {"Oth"}, {"VASP"}, {FALSE})
    \/ Analyze({"A", "B"}, {"Mix", "Oth"}, BOOLEAN)

SpecMixer == Init /\ [][NextMixer]_vars

(***************************************************************************)
(* SpecCap: the time window and the result cap.  Three deposits A -> M     *)
(* (two at 0:00:00, one at 0:01:00) and four withdrawals M -> X (at        *)
(* 0:02:00, at 0:30:00, at 0:30:01 and, a day later, at 0:05:00), all of   *)
(* 1000.                                                                   *)
(***************************************************************************)
CapRecords ==
    { TxData("A", "M", "D1", 1000, 0, "none"),
      TxData("A", "M", "D2", 1000, 0, "none"),
      TxData("A", "M", "D3", 1000, 60, "none"),
      TxData("M", "X", "W1", 1000, 120, "none"),
      TxData("M", "X", "W2", 1000, 1800, "none"),
      TxData("M", "X", "W3", 1000, 1801, "none"),
      TxData("M", "X", "W4", 1000, 86700, "none") }

NextCap ==
    \/ Load(CapRecords, {FALSE}, Cardinality(CapRecords))
    \/ Attribute({"M"}, {"Mix"}, {"Mixer"}, {FALSE})
    \/ Analyze({"A"}, {"Mix"}, {FALSE})

SpecCap == Init /\ [][NextCap]_vars

(***************************************************************************)
(* SpecConc: callers ingest the transaction hash T1 (A -> B, observed at   *)
(* time 1 or 2) in transactions that overlap, while a reader queries.      *)
(***************************************************************************)
ConcRecords == { TxData("A", "B", "T1", 100, ts, "none") : ts \in 1..2 }

NextConc ==
    \/ \E c \in Callers, rec \in ConcRecords : BeginWrite(c, rec)
    \/ \E c \in Callers : MergeSource(c)
    \/ \E c \in Callers : MergeDest(c)
    \/ \E c \in Callers : MergeSentIn(c)
    \/ \E c \in Callers : CommitWrite(c)
    \/ \E c \in Callers : AbortWrite(c)
    \/ ReadGraph

SpecConc == Init /\ [][NextConc]_vars

(***************************************************************************)
(* Ingestion claims (Spec).                                                *)
(***************************************************************************)
SentWithHash(tx) == CountIn(sent, LAMBDA e : e.tx_hash = tx)

\* C1: the graph holds at most one SENT edge per transaction hash, whatever
\* the source and destination addresses of the records that were ingested.
C1_OneEdgePerTxHash ==
    \A e \in BagToSet(sent) : SentWithHash(e.tx_hash) = 1

Touching(h) == { e \in BagToSet(sent) : e.from = h \/ e.to = h }
MinOf(S) == CHOOSE x \in S : \A y \in S : x <= y
MaxOf(S) == CHOOSE x \in S : \A y \in S : x >= y

\* C2: an address touched by transfers at two or more distinct times has
\* first_seen = the least and last_seen = the greatest of their timestamps,
\* in whatever order they were ingested and however the address was created.
C2_SeenMinMax ==
    \A a \in BagToSet(addresses) :
        LET ts == { e.timestamp : e \in Touching(a.hash) }
        IN Cardinality(ts) >= 2 =>
              /\ a.first_seen = MinOf(ts)
              /\ a.last_seen = MaxOf(ts)

\* C3: load_transaction returns true exactly when the call created a SENT
\* edge, returns false when an edge with the record's transaction hash
\* already existed, and never returns false for a store failure.
C3_ReturnsCreated ==
    [][ last'.op = "load_transaction" =>
          LET existed == SentWithHash(last'.rec.transaction_hash) > 0
              created == BagCardinality(sent') > BagCardinality(sent)
          IN /\ (last'.ret = "True") <=> created
             /\ (existed /\ ~last'.fail /\ last'.rec.absent = "none")
                   => last'.ret = "False"
             /\ (last'.fail /\ last'.rec.absent = "none")
                   => last'.ret # "False" ]_vars

\* An outcome the caller can tell from success, duplicate and store failure.
InvalidRecordOutcome(ret) == ret \notin {"True", "False"}

\* C9: a record with amount <= 0 or a missing key is rejected with an
\* outcome of its own, and the rejected call leaves the graph as it was.
C9_InvalidRecordRejected ==
    [][ ( /\ last'.op = "load_transaction"
          /\ (last'.rec.absent # "none" \/ last'.rec.value_usd <= 0) )
        => ( /\ InvalidRecordOutcome(last'.ret)
             /\ graph' = graph ) ]_vars

(***************************************************************************)
(* Attribution claim (SpecAttr).                                           *)
(***************************************************************************)
\* C10: after attribute_entity(a, n, t) returns, a has risk_score 0.99 and
\* is_attributed, exactly one Entity is named n and exactly one OWNED_BY
\* edge links a to n; every Entity that existed keeps its type (so a call
\* with another type leaves the type set on creation), and a repeated call
\* with the same arguments leaves the whole graph unchanged.
C10_AttributeIdempotent ==
    [][ (last'.op = "attribute_entity" /\ last'.ret = "None") =>
          LET a == last'.address_hash
              n == last'.entity_name
          IN /\ \E x \in BagToSet(addresses') : x.hash = a
             /\ \A x \in BagToSet(addresses') :
                   x.hash = a => x.risk_score = RISK_SCORE /\ x.is_attributed
             /\ CountIn(entities', LAMBDA e : e.name = n) = 1
             /\ CountIn(owned_by', LAMBDA o : o.address = a /\ o.entity = n) = 1
             /\ \A e \in BagToSet(entities) :
                   CopiesIn(e, entities') = CopiesIn(e, entities)
             /\ last = last' => graph' = graph ]_vars

\* attribute_entity returned for a name whose Entity keeps another type,
\* on an address that transfers had already created.
C10_Witness ==
    /\ last.op = "attribute_entity"
    /\ last.ret = "None"
    /\ \E e \in BagToSet(entities) :
          e.name = last.entity_name /\ e.type # last.entity_type
    /\ \E x \in BagToSet(addresses) :
          x.hash = last.address_hash /\ x.first_seen # NULL /\ x.is_attributed

(***************************************************************************)
(* Peel-chain claims (SpecTrace).                                          *)
(***************************************************************************)
Traced == last.op = "trace_and_format_graph" /\ last.ret = "result"

\* The SENT edges that lie on a directed chain of 1..k SENT edges from start
\* whose amounts all exceed 500.
OnDominantChain(start, k) ==
    LET E == BagToSet(sent)
    IN { e \in E :
           \E n \in 1..k : \E p \in [1..n -> E] :
              /\ p[1].from = start
              /\ \A i \in 1..(n - 1) : p[i].to = p[i + 1].from
              /\ \A i \in 1..n : p[i].amount_usd > 500
              /\ \E i \in 1..n : p[i] = e }

\* C7: every edge trace_and_format_graph returns lies on a directed SENT
\* path of 1..maxHops edges from startHash whose amounts are all > 500, and
\* is flagged is_peel_chain exactly when its own amount is > 900.
C7_TracedEdgesOnDominantPath ==
    Traced =>
      \A x \in last.result.edges :
         /\ \E e \in OnDominantChain(last.start_address, last.max_hops) :
               e.tx_hash = x.id /\ e.from = x.from /\ e.to = x.to
                 /\ e.amount_usd = x.amount_usd
         /\ x.amount_usd > 500
         /\ x.is_peel_chain <=> (x.amount_usd > 900)

\* A trace over two hops returned a flagged first edge and, behind it, an
\* edge of exactly 900 that is not flagged.
C7_Witness ==
    /\ Traced
    /\ \E x, y \in last.result.edges :
          /\ x.from = last.start_address /\ y.from = x.to /\ y.from # x.from
          /\ x.is_peel_chain /\ x.amount_usd = 901
          /\ ~y.is_peel_chain /\ y.amount_usd = 900

\* C8: the result is empty with risk_level LOW and total 0 exactly when no
\* qualifying path leaves startHash; otherwise risk_level is HIGH, the edges
\* are those of the qualifying paths and the nodes their endpoints, each
\* node hash and each transaction hash appears exactly once, and
\* total_value_usd is the sum over those distinct edges.
C8_TraceUnionOnce ==
    Traced =>
      LET r == last.result
          Q == OnDominantChain(last.start_address, last.max_hops)
          ends == {last.start_address} \cup { e.to : e \in Q }
      IN IF Q = {}
         THEN r.nodes = {} /\ r.edges = {} /\ r.risk_level = "LOW"
                /\ r.total_value_usd = 0
         ELSE /\ r.risk_level = "HIGH"
              /\ { x.id : x \in r.edges } = { e.tx_hash : e \in Q }
              /\ { x.id : x \in r.nodes } = ends
              /\ \A x, y \in r.nodes : x.id = y.id => x = y
              /\ \A x, y \in r.edges : x.id = y.id => x = y
              /\ r.total_value_usd = SumAmounts(Q)

(***************************************************************************)
(* Mixer claims (SpecMixer, SpecCap).                                      *)
(***************************************************************************)
Analyzed == last.op = "analyze_mixer_flow" /\ last.result.status # "ERROR"

Owns(n, h) == \E o \in BagToSet(owned_by) : o.address = h /\ o.entity = n

\* The (deposit, withdrawal) pairs of SENT edges through the entity named
\* mixer for deposits made by start.
ThroughMixer(start, mixer) ==
    { r \in [dep : BagToSet(sent), wdr : BagToSet(sent)] :
        r.dep.from = start /\ Owns(mixer, r.dep.to) /\ Owns(mixer, r.wdr.from) }

\* The pair r is the one a returned record reports.
Reports(record, r) ==
    /\ record.DepositSource = r.dep.from
    /\ record.DepositAmount = r.dep.amount_usd
    /\ record.DepositTime = r.dep.timestamp
    /\ record.WithdrawalAmount = r.wdr.amount_usd
    /\ record.WithdrawalTarget = r.wdr.to
    /\ record.WithdrawalTime = r.wdr.timestamp

InWindow(r) ==
    /\ r.wdr.timestamp - r.dep.timestamp >= 0
    /\ r.wdr.timestamp - r.dep.timestamp <= 30 * 60

InTolerance(r) ==
    20 * Abs(r.dep.amount_usd - r.wdr.amount_usd) <= r.dep.amount_usd

\* C4: a pair is reported only if the full elapsed time from the deposit to
\* the withdrawal lies in [0, 30] minutes.
C4_ReportedWithinWindow ==
    Analyzed =>
      \A i \in 1..Len(last.results) :
         \E r \in ThroughMixer(last.start_address, last.mixer_name) :
            Reports(last.results[i], r) /\ InWindow(r)

\* C5: a pair is reported only if its deposit is a SENT edge from startHash
\* into an address the named entity owns, its withdrawal a SENT edge out of
\* an address that entity owns, and the amounts differ by at most 5% of the
\* deposit; the row carries those edges' values; and a deposit of 1000 with
\* a withdrawal of 950 at the same instant is reported.
C5_ReportedWithinTolerance ==
    Analyzed =>
      /\ \A i \in 1..Len(last.results) :
            /\ \E r \in ThroughMixer(last.start_address, last.mixer_name) :
                  Reports(last.results[i], r) /\ InTolerance(r)
            /\ last.result.correlations[i].deposit_source = last.start_address
            /\ last.result.correlations[i].deposit_amount_usd
                  = last.results[i].DepositAmount
            /\ last.result.correlations[i].withdrawal_amount_usd
                  = last.results[i].WithdrawalAmount
      /\ \A r \in ThroughMixer(last.start_address, last.mixer_name) :
            ( /\ r.dep.amount_usd = 1000 /\ r.wdr.amount_usd = 950
              /\ r.wdr.timestamp = r.dep.timestamp )
            => \E i \in 1..Len(last.results) : Reports(last.results[i], r)

\* A deposit of 1000 and its withdrawal of 950 half an hour later were
\* reported as the one correlation.
C5_Witness ==
    /\ Analyzed
    /\ last.result.status = "CORRELATION DETECTED"
    /\ last.result.count = 1
    /\ last.result.correlations[1].deposit_amount_usd = 1000
    /\ last.result.correlations[1].withdrawal_amount_usd = 950
    /\ last.result.correlations[1].time_difference_minutes = 3000

\* C6: with Q the pairs that qualify (tolerance and window), the call
\* returns min(|Q|, 10) rows, every pair of Q when there are at most 10, in
\* ascending deposit time and the earliest deposits first; the status is
\* CORRELATION DETECTED with count = the number of rows when Q is not
\* empty, and No Correlation Found with no rows when it is.
C6_FirstTenQualifying ==
    Analyzed =>
      LET Q == { r \in ThroughMixer(last.start_address, last.mixer_name) :
                   InTolerance(r) /\ InWindow(r) }
          n == Len(last.results)
          least(a, b) == IF a <= b THEN a ELSE b
      IN /\ n = least(Cardinality(Q), 10)
         /\ Len(last.result.correlations) = n
         /\ Cardinality(Q) <= 10 =>
               \A r \in Q : \E i \in 1..n : Reports(last.results[i], r)
         /\ \A i \in 1..n : \E r \in Q : Reports(last.results[i], r)
         /\ \A i, j \in 1..n :
               i < j => last.results[i].DepositTime <= last.results[j].DepositTime
         /\ \A r \in Q :
               Cardinality({ i \in 1..n : last.results[i].DepositTime <= r.dep.timestamp })
                 = least(10, Cardinality({ q \in Q : q.dep.timestamp <= r.dep.timestamp }))
         /\ IF Q = {}
            THEN last.result.status = "No Correlation Found"
            ELSE last.result.status = "CORRELATION DETECTED" /\ last.result.count = n

(***************************************************************************)
(* Concurrency claim (SpecConc).                                           *)
(***************************************************************************)
Quiescent == \A c \in Callers : callers[c].pc = "idle"

\* C11: when callers have run load_transaction concurrently with the same
\* transaction hash and every call has ended, the graph holds exactly one
\* SENT edge with that hash and one Address node per endpoint hash; and a
\* reader never sees a SENT edge without both of its endpoint nodes.
C11_ConcurrentLoadConverges ==
    /\ Quiescent =>
          \A e \in BagToSet(sent) :
             /\ SentWithHash(e.tx_hash) = 1
             /\ CountIn(addresses, LAMBDA a : a.hash = e.from) = 1
             /\ CountIn(addresses, LAMBDA a : a.hash = e.to) = 1
    /\ \A e \in observed.edges :
          e.from \in observed.nodes /\ e.to \in observed.nodes

====
